---- MODULE Spec2Model ----
(***************************************************************************)
(* A model of the NetworkSim discrete-event simulator:                     *)
(*   EventListManager  (src/EventListManager.py)  the future event list    *)
(*   Event             (src/Event.py)             the event record         *)
(*   Source            (src/Source.py)            arrival generation       *)
(*   Queue             (src/Queue.py)             one finite queue         *)
(*   NetworkSimulation (src/simulation/NetworkSimulation.py)  the driver   *)
(*                                                                         *)
(* Times are integer ticks; an exponential draw (numpy's exponential       *)
(* returns a value >= 0) is zero, which makes two events tie, or one tick. *)
(* A ratio x / 5000 is kept as its numerator x.                            *)
(*                                                                         *)
(* Four specifications:                                                    *)
(*   Spec       a process that constructs and runs NetworkSimulations,     *)
(*              one after the other, on the process-wide event list        *)
(*   SpecLive   one simulation run to its end, under weak fairness         *)
(*   SpecQueue  one Queue under any sequence of its public operations      *)
(*   SpecEL     the EventListManager class under any sequence of           *)
(*              constructor, get_instance, insert_event and poll calls     *)
(***************************************************************************)
EXTENDS Integers, Sequences, FiniteSets

VARIABLES
    instance,        \* EventListManager._instance is not None
    objects,         \* history: EventListManager objects constructed so far
    event_list,      \* EventListManager.event_list (of the singleton)
    pc,              \* where the driver is: "none", "constructed", "loop", "done"
    global_time,     \* NetworkSimulation.global_time
    packets_arrived, \* NetworkSimulation.packets_arrived
    max_arrivals,    \* NetworkSimulation.max_arrivals
    queues,          \* NetworkSimulation.queues
    next_id,         \* identity of the next Event object to be created
    run,             \* history: how many NetworkSimulations were constructed
    run_first_id,    \* history: next_id when the current simulation was constructed
    last_polled,     \* history: the event of the latest POLLED entry of this run
    prev_time,       \* history: global_time logged with the latest POLLED entry
    dispatched,      \* history: source arrivals dispatched by this run
    generated,       \* history: per queue, the arrivals this run's sources generated for it
    log,             \* history of this run: the draws it used and the
                     \* (time, type, destination, origin) of its POLLED entries
    first,           \* history: budget, log and final queues of the first simulation
    queue,           \* SpecQueue: the Queue object
    calls,           \* SpecQueue: add_packet/remove_packet calls made so far
    outcomes,        \* SpecQueue: history, what each add_packet call found and did
    in_service,      \* SpecQueue: history, id of the packet in service (0: none)
    completed,       \* SpecQueue: history, ids of the packets that completed service
    service_cost,    \* SpecQueue: history, waiting + service time of the packet in service
    costs,           \* SpecQueue: history, waiting + service time of each completed packet
    polled           \* SpecEL: history, the events poll returned, in order

vars == <<instance, objects, event_list, pc, global_time, packets_arrived, max_arrivals,
          queues, next_id, run, run_first_id, last_polled, prev_time, dispatched,
          generated,
          log, first, queue, calls, outcomes, in_service, completed,
          service_cost, costs, polled>>

simVars == <<pc, global_time, packets_arrived, max_arrivals, queues, run,
             run_first_id, last_polled, prev_time, dispatched, generated, log, first>>
queueVars == <<queue, calls, outcomes, in_service, completed, service_cost, costs>>

(***************************************************************************)
(* Bounds of the model.                                                    *)
(***************************************************************************)
\* max_arrivals of a simulation is (number of sources - 1)..MaxBudget
MaxBudget == 9
\* Event objects created in one process
MaxEvents == 13
\* SpecQueue: size_limit is 0..MaxCap
MaxCap == 2
\* SpecQueue: number of add_packet/remove_packet calls
MaxCalls == 7
\* SpecEL: number of insert_event calls, and the largest event time
MaxInserts == 4
MaxTime == 2
\* The batch of Queue.py (5000 packets, lines 69, 100, 126, 134), scaled down so
\* that batches close within MaxCalls calls.
BatchSize == 3
\* SpecLive: largest max_arrivals
LiveBudget == 6
\* SpecEL: number of EventListManager objects that constructor calls may create
MaxObjects == 2

(***************************************************************************)
(* Event.py                                                                *)
(***************************************************************************)
ARRIVAL == 1
DEPARTURE == 2
PACKET_DROP == 3

\* Event.__init__; id stands for the identity of the Python object
Event(event_time, event_type, destination, origin, id) ==
    [event_time |-> event_time, type |-> event_type,
     destination |-> destination, origin |-> origin, id |-> id]

get_event_clock(event) == event.event_time

\* Python's None, where an Event is expected
None == Event(-1, 0, -1, <<"None", 0>>, 0)

(***************************************************************************)
(* EventListManager.py                                                     *)
(***************************************************************************)
is_empty(list) == Len(list) = 0

\* mutant: the event is appended whatever its time
insert_event_append(list, event) == Append(list, event)

\* mutant: the new event overwrites the one it should go before
insert_event_overwrite(list, event) ==
    IF is_empty(list) THEN Append(list, event)
    ELSE LET at == {i \in 1..Len(list) :
                       get_event_clock(event) <= get_event_clock(list[i])}
         IN  IF at = {} THEN Append(list, event)
             ELSE LET i == CHOOSE j \in at : \A k \in at : j <= k
                  IN  [list EXCEPT ![i] = event]

\* __init__: raises when _instance is set, constructs the object otherwise
constructs(inst) == ~inst

\* mutant: the event goes behind the pending events of its own time (< for <=)
insert_event_behind(list, event) ==
    IF is_empty(list) THEN Append(list, event)
    ELSE LET at == {i \in 1..Len(list) :
                       get_event_clock(event) < get_event_clock(list[i])}
         IN  IF at = {} THEN Append(list, event)
             ELSE LET i == CHOOSE j \in at : \A k \in at : j <= k
                  IN  SubSeq(list, 1, i - 1) \o <<event>> \o SubSeq(list, i, Len(list))

\* insert_event: before the first existing event whose time is >= the event's
insert_event(list, event) ==
    IF is_empty(list) THEN Append(list, event)
    ELSE LET at == {i \in 1..Len(list) :
                       get_event_clock(event) <= get_event_clock(list[i])}
         IN  IF at = {} THEN Append(list, event)
             ELSE LET i == CHOOSE j \in at : \A k \in at : j <= k
                  IN  SubSeq(list, 1, i - 1) \o <<event>> \o SubSeq(list, i, Len(list))

\* mutant: pops from the right end (pop for popleft)
poll_right(list) ==
    IF list # <<>> THEN [event |-> list[Len(list)], list |-> SubSeq(list, 1, Len(list) - 1)]
    ELSE [event |-> None, list |-> list]

\* poll: the popped event (None when empty) and the remaining list
poll(list) ==
    IF list # <<>> THEN [event |-> Head(list), list |-> Tail(list)]
    ELSE [event |-> None, list |-> list]

(***************************************************************************)
(* Queue.py                                                                *)
(***************************************************************************)
ONE_A == 0
ONE_B == 1
TWO_A == 2
TWO_B == 3
THREE_A == 4
THREE_B == 5
THREE_C == 6
FOUR_A == 7
NO_DESTINATION == -1

\* Queue.__init__ (next_queues and name are kept in the topology below)
NewQueue(size_limit) ==
    [size_limit |-> size_limit,
     total_waiting_time |-> 0, total_transmission_time |-> 0,
     total_batch_time |-> 0, total_time |-> 0,
     packets_offered |-> 0, packets_dropped |-> 0,
     packets_dropped_per_batch |-> 0, packets_transmitted |-> 0,
     packets |-> <<>>, batch_means |-> <<>>, loss_ratios |-> <<>>,
     is_busy |-> FALSE]

\* mutant: the batch is recorded but the accumulator is not reset
calc_batch_times_keep(q) ==
    IF q.packets_transmitted > 0
    THEN [q EXCEPT !.batch_means = Append(@, q.total_batch_time)]
    ELSE q

\* calc_batch_times: appends total_batch_time / 5000 (kept as the numerator)
calc_batch_times(q) ==
    IF q.packets_transmitted > 0
    THEN [q EXCEPT !.batch_means = Append(@, q.total_batch_time),
                   !.total_batch_time = 0]
    ELSE q

\* print_details: the printing apart, sets total_time once a packet was transmitted
print_details(q) ==
    IF q.packets_transmitted > 0
    THEN [q EXCEPT !.total_time = q.total_waiting_time + q.total_transmission_time]
    ELSE q

\* print_batch_details: prints each batch mean and each loss ratio by taking it
\* off the left of its deque, until the deque is empty
print_batch_details(q) == [q EXCEPT !.batch_means = <<>>, !.loss_ratios = <<>>]

\* calc_loss_ratio: appends packets_dropped_per_batch / 5000 (the numerator)
calc_loss_ratio(q) ==
    IF q.packets_offered > 0
    THEN [q EXCEPT !.loss_ratios = Append(@, q.packets_dropped_per_batch),
                   !.packets_dropped_per_batch = 0]
    ELSE q

\* mutant: a waiting packet is stamped with its arrival time plus a service draw
add_packet_stamp(q, event, current_time, transmission_time) ==
    LET q1 == [q EXCEPT !.packets_offered = @ + 1]
        q2 == IF q1.packets_offered % BatchSize = 0 THEN calc_loss_ratio(q1) ELSE q1
    IN  IF Len(q2.packets) = q2.size_limit
        THEN [queue |-> [q2 EXCEPT !.packets_dropped = @ + 1,
                                   !.packets_dropped_per_batch = @ + 1],
              ret |-> -1]
        ELSE IF ~q2.is_busy
        THEN [queue |-> [q2 EXCEPT !.is_busy = TRUE,
                                   !.total_transmission_time = @ + transmission_time,
                                   !.total_batch_time = @ + transmission_time],
              ret |-> transmission_time]
        ELSE [queue |-> [q2 EXCEPT !.packets =
                  Append(@, <<event, get_event_clock(event) + transmission_time>>)],
              ret |-> -1]

\* mutant: the full test is skipped while the server is busy
add_packet_nolimit(q, event, current_time, transmission_time) ==
    LET q1 == [q EXCEPT !.packets_offered = @ + 1]
        q2 == IF q1.packets_offered % BatchSize = 0 THEN calc_loss_ratio(q1) ELSE q1
    IN  IF Len(q2.packets) = q2.size_limit /\ ~q2.is_busy
        THEN [queue |-> [q2 EXCEPT !.packets_dropped = @ + 1,
                                   !.packets_dropped_per_batch = @ + 1],
              ret |-> -1]
        ELSE IF ~q2.is_busy
        THEN [queue |-> [q2 EXCEPT !.is_busy = TRUE,
                                   !.total_transmission_time = @ + transmission_time,
                                   !.total_batch_time = @ + transmission_time],
              ret |-> transmission_time]
        ELSE [queue |-> [q2 EXCEPT !.packets =
                                      Append(@, <<event, get_event_clock(event)>>)],
              ret |-> -1]

\* add_packet: the queue after the call and the returned value
\* (transmission_time is the draw of expR.gen_random, used when service starts)
add_packet(q, event, current_time, transmission_time) ==
    LET q1 == [q EXCEPT !.packets_offered = @ + 1]
        q2 == IF q1.packets_offered % BatchSize = 0 THEN calc_loss_ratio(q1) ELSE q1
    IN  IF Len(q2.packets) = q2.size_limit
        THEN [queue |-> [q2 EXCEPT !.packets_dropped = @ + 1,
                                   !.packets_dropped_per_batch = @ + 1],
              ret |-> -1]
        ELSE IF ~q2.is_busy
        THEN [queue |-> [q2 EXCEPT !.is_busy = TRUE,
                                   !.total_transmission_time = @ + transmission_time,
                                   !.total_batch_time = @ + transmission_time],
              ret |-> transmission_time]
        ELSE [queue |-> [q2 EXCEPT !.packets =
                                      Append(@, <<event, get_event_clock(event)>>)],
              ret |-> -1]

\* remove_packet: the queue after the call and the returned value
remove_packet(q, current_time, transmission_time) ==
    LET q1 == [q EXCEPT !.packets_transmitted = @ + 1]
        q2 == IF q1.packets_transmitted % BatchSize = 0 THEN calc_batch_times(q1) ELSE q1
    IN  IF q2.packets = <<>>
        THEN [queue |-> [q2 EXCEPT !.is_busy = FALSE], ret |-> -1]
        ELSE LET arrival_time == Head(q2.packets)[2]
                 raw == current_time - arrival_time
                 waiting_time == IF raw < 0 THEN 0 ELSE raw
             IN  [queue |-> [q2 EXCEPT
                      !.packets = Tail(@),
                      !.total_waiting_time = @ + waiting_time,
                      !.total_transmission_time = @ + transmission_time,
                      !.total_batch_time = @ + (waiting_time + transmission_time)],
                  ret |-> transmission_time]

(***************************************************************************)
(* Source.py                                                               *)
(***************************************************************************)
\* gen_arrival of the Source whose destination is given; inter_arrival is the
\* draw of expR.gen_random; the origin "Source <n>" is kept as its two words
gen_arrival(destination, current_time, source_num, inter_arrival, id) ==
    LET arrival_time == current_time + inter_arrival
        origin == <<"Source", source_num>>
    IN  Event(arrival_time, ARRIVAL, destination, origin, id)

(***************************************************************************)
(* NetworkSimulation.py                                                    *)
(***************************************************************************)
\* the destinations of source_params: Source 0..3
source_params == <<ONE_A, ONE_A, ONE_B, TWO_A>>
SourceNums == 0..(Len(source_params) - 1)
sources(i) == source_params[i + 1]

\* queue_params: the next queues, the name "Router Q<n>" and the size limit
QueueIds == {ONE_A, ONE_B, TWO_A, TWO_B, THREE_A, THREE_B, THREE_C, FOUR_A}
next_queues(q) ==
    CASE q = ONE_A   -> <<ONE_B, TWO_A>>
      [] q = ONE_B   -> <<TWO_B>>
      [] q = TWO_A   -> <<THREE_A, THREE_B>>
      [] q = TWO_B   -> <<THREE_C>>
      [] q = THREE_A -> <<>>
      [] q = THREE_B -> <<FOUR_A>>
      [] q = THREE_C -> <<>>
      [] q = FOUR_A  -> <<>>
name(q) == <<"Router", q>>
SizeLimit == 10

\* the draws of ExpRandGenerator.gen_random
Dur == {0, 1}
\* a process constructs a first simulation and, after it has run, a second one
RunNumbers == {1, 2}
Budgets == (Len(source_params) - 1)..MaxBudget

\* "Source" in event.origin, and int(event.origin.split()[1])
from_source(event) == event.origin[1] = "Source"
source_num_of(event) == event.origin[2]

\* gen_init_packets, from source i on: one arrival per source, inserted in turn
\* (the list after each insertion is computed once, then handed on)
RECURSIVE gen_init_packets(_, _, _, _, _)
gen_init_packets(list, time, i, draws, id) ==
    IF i \notin SourceNums THEN list
    ELSE LET inserted == insert_event(list, gen_arrival(sources(i), time, i, draws[i], id))
         IN  CHOOSE l \in {gen_init_packets(x, time, i + 1, draws, id + 1) :
                               x \in {inserted}} : TRUE

\* mutant: the loop over next_queues stops after its first queue
schedule_next_first(list, nqs, time, origin, id) ==
    IF nqs = <<>> THEN list
    ELSE insert_event(list, Event(time, ARRIVAL, Head(nqs), origin, id))

\* the loop over next_queues of a departure's queue: one arrival each, at time
RECURSIVE schedule_next(_, _, _, _, _)
schedule_next(list, nqs, time, origin, id) ==
    IF nqs = <<>> THEN list
    ELSE IF Head(nqs) # NO_DESTINATION
    THEN schedule_next(insert_event(list, Event(time, ARRIVAL, Head(nqs), origin, id)),
                       Tail(nqs), time, origin, id + 1)
    ELSE schedule_next(list, Tail(nqs), time, origin, id)

\* what a POLLED entry of processed_events shows of an event
Logged(event) == <<get_event_clock(event), event.type, event.destination, event.origin>>

\* mutant: the loop stops one arrival short of the budget
loop_condition_short(arrived, budget) == arrived < budget - 1

\* mutant: the loop runs one arrival too long
loop_condition_le(arrived, budget) == arrived <= budget

\* the condition of run's while loop
loop_condition(arrived, budget) == arrived < budget

\* NetworkSimulation(max_arrivals): a new simulation; EventListManager.get_instance()
\* constructs the event list the first time and returns the same object afterwards
NewSimulation(m) ==
    /\ pc \in {"none", "done"}
    /\ run + 1 \in RunNumbers
    /\ instance' = TRUE
    /\ objects' = IF constructs(instance) THEN objects + 1 ELSE objects
    /\ event_list' = IF instance THEN event_list ELSE <<>>
    /\ global_time' = 0
    /\ packets_arrived' = 0
    /\ max_arrivals' = m
    /\ queues' = [q \in QueueIds |-> NewQueue(SizeLimit)]
    /\ pc' = "constructed"
    /\ run' = run + 1
    /\ run_first_id' = next_id
    /\ last_polled' = None
    /\ prev_time' = 0
    /\ dispatched' = 0
    /\ generated' = [q \in QueueIds |-> 0]
    /\ log' = [draws |-> <<>>, polled |-> <<>>]
    /\ first' = IF run = 1
                THEN [max_arrivals |-> max_arrivals, draws |-> log.draws,
                      polled |-> log.polled, queues |-> queues]
                ELSE first
    /\ UNCHANGED <<next_id, polled>>
    /\ UNCHANGED queueVars

\* run(), first statement: gen_init_packets
GenInitPacketsStep(draws) ==
    /\ pc = "constructed"
    /\ event_list' = gen_init_packets(event_list, global_time, 0, draws, next_id)
    /\ packets_arrived' = packets_arrived + Len(source_params)
    /\ next_id' = next_id + Len(source_params)
    /\ pc' = "loop"
    /\ log' = [log EXCEPT !.draws = @ \o [i \in 1..Len(source_params) |-> draws[i - 1]]]
    /\ generated' = [q \in QueueIds |->
                         generated[q] + Cardinality({i \in SourceNums : sources(i) = q})]
    /\ UNCHANGED <<instance, objects, global_time, max_arrivals, queues, run, run_first_id,
                   last_polled, prev_time, dispatched, first, polled>>
    /\ UNCHANGED queueVars

\* one iteration of the loop that polls an ARRIVAL event
DispatchArrivalStep(transmission_time, inter_arrival) ==
    /\ pc = "loop"
    /\ loop_condition(packets_arrived, max_arrivals)
    /\ LET p == poll(event_list)
           event == p.event
           now == get_event_clock(event)
           dest == event.destination
       IN  /\ event # None
           /\ event.type = ARRIVAL
           /\ last_polled' = event
           /\ prev_time' = global_time
           /\ global_time' = now
           /\ \E r \in {add_packet(queues[dest], event, now, transmission_time)} :
              LET dep_event == Event(now + r.ret, DEPARTURE, dest, name(dest), next_id)
                  id1 == IF r.ret > -1 THEN next_id + 1 ELSE next_id
                  new_arrival == gen_arrival(sources(source_num_of(event)), now,
                                             source_num_of(event), inter_arrival, id1)
              IN  /\ queues' = [queues EXCEPT ![dest] = r.queue]
                  /\ \E list1 \in {IF r.ret > -1 THEN insert_event(p.list, dep_event)
                                                 ELSE p.list} :
                         IF from_source(event)
                         THEN /\ event_list' = insert_event(list1, new_arrival)
                              /\ packets_arrived' = packets_arrived + 1
                              /\ next_id' = id1 + 1
                              /\ dispatched' = dispatched + 1
                              /\ generated' = [generated EXCEPT
                                                  ![new_arrival.destination] = @ + 1]
                         ELSE /\ event_list' = list1
                              /\ next_id' = id1
                              /\ UNCHANGED <<packets_arrived, dispatched, generated>>
                  /\ log' = [draws |-> log.draws
                                \o (IF r.ret > -1 THEN <<transmission_time>> ELSE <<>>)
                                \o (IF from_source(event) THEN <<inter_arrival>> ELSE <<>>),
                             polled |-> Append(log.polled, Logged(event))]
    /\ UNCHANGED <<instance, objects, max_arrivals, pc, run, run_first_id, first, polled>>
    /\ UNCHANGED queueVars

\* one iteration of the loop that polls a DEPARTURE event
DispatchDepartureStep(transmission_time) ==
    /\ pc = "loop"
    /\ loop_condition(packets_arrived, max_arrivals)
    /\ LET p == poll(event_list)
           event == p.event
           now == get_event_clock(event)
           dest == event.destination
           nqs == next_queues(dest)
       IN  /\ event # None
           /\ event.type = DEPARTURE
           /\ last_polled' = event
           /\ prev_time' = global_time
           /\ global_time' = now
           /\ \E r \in {remove_packet(queues[dest], now, transmission_time)} :
              LET dep_event == Event(now + r.ret, DEPARTURE, dest, name(dest), next_id)
                  id1 == IF r.ret > -1 THEN next_id + 1 ELSE next_id
              IN  /\ queues' = [queues EXCEPT ![dest] = r.queue]
                  /\ \E list1 \in {IF r.ret > -1 THEN insert_event(p.list, dep_event)
                                                 ELSE p.list} :
                         event_list' = schedule_next(list1, nqs, now, name(dest), id1)
                  /\ next_id' = id1 + Cardinality({i \in 1..Len(nqs) :
                                                      nqs[i] # NO_DESTINATION})
                  /\ log' = [draws |-> log.draws
                                \o (IF r.ret > -1 THEN <<transmission_time>> ELSE <<>>),
                             polled |-> Append(log.polled, Logged(event))]
    /\ UNCHANGED <<instance, objects, max_arrivals, pc, packets_arrived, run, run_first_id,
                   dispatched, generated, first, polled>>
    /\ UNCHANGED queueVars

\* the loop is left: the budget is reached, or poll returned None
LoopExit ==
    /\ pc = "loop"
    /\ ~(loop_condition(packets_arrived, max_arrivals) /\ poll(event_list).event # None)
    /\ pc' = "done"
    /\ queues' = [q \in QueueIds |-> print_details(queues[q])]
    /\ UNCHANGED <<instance, objects, event_list, global_time, packets_arrived, max_arrivals,
                   next_id, run, run_first_id, last_polled, prev_time,
                   dispatched, generated, log, first, polled>>
    /\ UNCHANGED queueVars

\* the steps of Spec: those of the code, as long as the process has created at
\* most MaxEvents events
GenInitPackets(draws) ==
    GenInitPacketsStep(draws) /\ next_id' <= MaxEvents + 1

DispatchArrival(transmission_time, inter_arrival) ==
    DispatchArrivalStep(transmission_time, inter_arrival) /\ next_id' <= MaxEvents + 1

DispatchDeparture(transmission_time) ==
    DispatchDepartureStep(transmission_time) /\ next_id' <= MaxEvents + 1

Init ==
    /\ instance = FALSE
    /\ objects = 0
    /\ event_list = <<>>
    /\ pc = "none"
    /\ global_time = 0
    /\ packets_arrived = 0
    /\ max_arrivals = 0
    /\ queues = [q \in QueueIds |-> NewQueue(SizeLimit)]
    /\ next_id = 1
    /\ run = 0
    /\ run_first_id = 1
    /\ last_polled = None
    /\ prev_time = 0
    /\ dispatched = 0
    /\ generated = [q \in QueueIds |-> 0]
    /\ log = [draws |-> <<>>, polled |-> <<>>]
    /\ first = [max_arrivals |-> -1, draws |-> <<>>, polled |-> <<>>,
                queues |-> [q \in QueueIds |-> NewQueue(SizeLimit)]]
    /\ queue = NewQueue(0)
    /\ calls = 0
    /\ outcomes = <<>>
    /\ in_service = 0
    /\ completed = <<>>
    /\ service_cost = 0
    /\ costs = <<>>
    /\ polled = <<>>

Next ==
    \/ \E m \in Budgets : NewSimulation(m)
    \/ \E draws \in [SourceNums -> Dur] : GenInitPackets(draws)
    \/ \E tt \in Dur, ia \in Dur : DispatchArrival(tt, ia)
    \/ \E tt \in Dur : DispatchDeparture(tt)
    \/ LoopExit

Spec == Init /\ [][Next]_vars

(***************************************************************************)
(* SpecLive: the simulation of a process run to its end, with a budget up  *)
(* to LiveBudget and no bound on the events created.  A started run goes   *)
(* on (weak fairness of its steps); nothing obliges the process to         *)
(* construct the simulation.                                               *)
(***************************************************************************)
LiveBudgets == (Len(source_params) - 1)..LiveBudget

RunStep ==
    \/ \E draws \in [SourceNums -> Dur] : GenInitPacketsStep(draws)
    \/ \E tt \in Dur, ia \in Dur : DispatchArrivalStep(tt, ia)
    \/ \E tt \in Dur : DispatchDepartureStep(tt)
    \/ LoopExit

NextLive ==
    \/ \E m \in LiveBudgets : run = 0 /\ NewSimulation(m)
    \/ RunStep

SpecLive == Init /\ [][NextLive]_vars /\ WF_vars(RunStep)

(***************************************************************************)
(* SpecQueue: one Queue, constructed with any size_limit 0..MaxCap, under  *)
(* any sequence of add_packet, remove_packet, print_details and            *)
(* print_batch_details calls.  global_time is the caller's clock (the      *)
(* current_time it passes), which never goes back.                         *)
(***************************************************************************)
\* what an add_packet call found (server busy, packets waiting) and what it did,
\* read off the queue before and after it
Outcome(before, r) ==
    [busy |-> before.is_busy,
     waiting |-> Len(before.packets),
     did |-> IF r.queue.packets_dropped > before.packets_dropped THEN "Dropped"
             ELSE IF r.ret > -1 THEN "ServiceStarted"
             ELSE "Enqueued"]

\* the id of the waiting packet that a remove_packet call took from the deque
Taken(before, after) ==
    LET i == CHOOSE k \in 1..Len(before.packets) :
                 \A j \in 1..Len(after.packets) : after.packets[j] # before.packets[k]
    IN  before.packets[i][1].id

QAdd(step, transmission_time) ==
    /\ calls < MaxCalls
    /\ LET now == global_time + step
           event == Event(now, ARRIVAL, ONE_A, <<"Source", 0>>, next_id)
           r == add_packet(queue, event, now, transmission_time)
       IN  /\ queue' = r.queue
           /\ outcomes' = Append(outcomes, Outcome(queue, r))
           /\ in_service' = IF r.ret > -1 THEN event.id ELSE in_service
           /\ service_cost' = IF r.ret > -1 THEN transmission_time ELSE service_cost
           /\ global_time' = now
    /\ next_id' = next_id + 1
    /\ calls' = calls + 1
    /\ UNCHANGED <<instance, objects, event_list, pc, packets_arrived, max_arrivals, queues,
                   run, run_first_id, last_polled, prev_time, dispatched, generated,
                   log, first, completed, costs, polled>>

\* completed records, for each remove_packet call, the packet whose service it
\* ended (0 when the call found the queue idle), and costs the time that packet
\* waited, from its arrival event to the call that took it, plus its service time
QRemove(step, transmission_time) ==
    /\ calls < MaxCalls
    /\ LET now == global_time + step
           r == remove_packet(queue, now, transmission_time)
       IN  /\ queue' = r.queue
           /\ completed' = Append(completed, in_service)
           /\ in_service' = IF r.ret > -1 THEN Taken(queue, r.queue) ELSE 0
           /\ costs' = Append(costs, service_cost)
           /\ service_cost' =
                  IF r.ret > -1
                  THEN LET i == CHOOSE k \in 1..Len(queue.packets) :
                                    queue.packets[k][1].id = Taken(queue, r.queue)
                       IN  (now - get_event_clock(queue.packets[i][1])) + transmission_time
                  ELSE 0
           /\ global_time' = now
    /\ calls' = calls + 1
    /\ UNCHANGED <<instance, objects, event_list, pc, packets_arrived, max_arrivals, queues,
                   next_id, run, run_first_id, last_polled, prev_time, dispatched, generated,
                   log, first, outcomes, polled>>

QPrintDetails ==
    /\ queue' = print_details(queue)
    /\ UNCHANGED <<calls, outcomes, in_service, completed, service_cost, costs>>
    /\ UNCHANGED <<instance, objects, event_list, next_id, polled>>
    /\ UNCHANGED simVars

QPrintBatchDetails ==
    /\ queue' = print_batch_details(queue)
    /\ UNCHANGED <<calls, outcomes, in_service, completed, service_cost, costs>>
    /\ UNCHANGED <<instance, objects, event_list, next_id, polled>>
    /\ UNCHANGED simVars

InitQueue ==
    /\ instance = FALSE
    /\ objects = 0
    /\ event_list = <<>>
    /\ pc = "none"
    /\ global_time = 0
    /\ packets_arrived = 0
    /\ max_arrivals = 0
    /\ queues = [q \in QueueIds |-> NewQueue(SizeLimit)]
    /\ next_id = 1
    /\ run = 0
    /\ run_first_id = 1
    /\ last_polled = None
    /\ prev_time = 0
    /\ dispatched = 0
    /\ generated = [q \in QueueIds |-> 0]
    /\ log = [draws |-> <<>>, polled |-> <<>>]
    /\ first = [max_arrivals |-> -1, draws |-> <<>>, polled |-> <<>>,
                queues |-> [q \in QueueIds |-> NewQueue(SizeLimit)]]
    /\ queue \in {NewQueue(c) : c \in 0..MaxCap}
    /\ calls = 0
    /\ outcomes = <<>>
    /\ in_service = 0
    /\ completed = <<>>
    /\ service_cost = 0
    /\ costs = <<>>
    /\ polled = <<>>

NextQueue ==
    \/ \E step \in Dur, tt \in Dur : QAdd(step, tt)
    \/ \E step \in Dur, tt \in Dur : QRemove(step, tt)
    \/ QPrintDetails
    \/ QPrintBatchDetails

SpecQueue == InitQueue /\ [][NextQueue]_vars

(***************************************************************************)
(* SpecEL: the event list under any sequence of insert_event and poll, and *)
(* the class under any sequence of constructor and get_instance calls.     *)
(***************************************************************************)
Insert(t) ==
    /\ next_id <= MaxInserts
    /\ event_list' = insert_event(event_list, Event(t, ARRIVAL, ONE_A, <<"Source", 0>>, next_id))
    /\ next_id' = next_id + 1
    /\ UNCHANGED <<instance, objects, polled>>
    /\ UNCHANGED simVars
    /\ UNCHANGED queueVars

Poll ==
    /\ LET p == poll(event_list)
       IN  /\ event_list' = p.list
           /\ polled' = IF p.event # None THEN Append(polled, p.event) ELSE polled
           /\ last_polled' = p.event
    /\ UNCHANGED <<instance, objects, next_id>>
    /\ UNCHANGED <<pc, global_time, packets_arrived, max_arrivals, queues, run,
                   run_first_id, prev_time, dispatched, generated, log, first>>
    /\ UNCHANGED queueVars

\* EventListManager(): a direct call of the constructor; it leaves _instance
\* as it is
Construct ==
    /\ objects < MaxObjects
    /\ objects' = IF constructs(instance) THEN objects + 1 ELSE objects
    /\ UNCHANGED <<instance, event_list, next_id, polled>>
    /\ UNCHANGED simVars
    /\ UNCHANGED queueVars

\* EventListManager.get_instance(): constructs and keeps the object when
\* _instance is None
GetInstance ==
    /\ objects < MaxObjects
    /\ objects' = IF instance THEN objects
                  ELSE IF constructs(instance) THEN objects + 1 ELSE objects
    /\ instance' = TRUE
    /\ UNCHANGED <<event_list, next_id, polled>>
    /\ UNCHANGED simVars
    /\ UNCHANGED queueVars

NextEL ==
    \/ \E t \in 0..MaxTime : Insert(t)
    \/ Poll
    \/ Construct
    \/ GetInstance

SpecEL == Init /\ [][NextEL]_vars

(***************************************************************************)
(* The claims.                                                             *)
(***************************************************************************)
NumSources == Len(source_params)

\* C1 (Spec): within a run the clock never goes back: the time of each polled
\* event, which becomes global_time, is >= the global_time it was polled at,
\* that is the time of the event polled before it (0 before the first poll).
C1_MonotonicClock ==
    last_polled # None =>
        /\ global_time = get_event_clock(last_polled)
        /\ prev_time <= global_time

\* a run has polled at least twice and the latest poll has advanced its clock
C1_Witness ==
    /\ last_polled # None
    /\ dispatched >= 2
    /\ prev_time < global_time

\* C2 (SpecEL): events of equal time are polled in the order of their insertion:
\* of two events with the same time, the one inserted first is never still
\* pending, nor polled later, once the other has been polled.
C2_FifoTieBreak ==
    /\ \A i, j \in 1..Len(polled) :
           (i < j /\ get_event_clock(polled[i]) = get_event_clock(polled[j]))
               => polled[i].id < polled[j].id
    /\ \A i \in 1..Len(polled), j \in 1..Len(event_list) :
           get_event_clock(polled[i]) = get_event_clock(event_list[j])
               => polled[i].id < event_list[j].id

\* packet conservation of one queue
Conservation(q) ==
    q.packets_offered = q.packets_dropped + q.packets_transmitted
                        + Len(q.packets) + (IF q.is_busy THEN 1 ELSE 0)

\* C3 (Spec): after every dispatch of the run loop, and at the end of the run,
\* every queue has offered = dropped + transmitted + waiting + (1 if busy).
C3_Conservation ==
    pc \in {"loop", "done"} => \A q \in QueueIds : Conservation(queues[q])

\* C4 (SpecQueue): the number of waiting packets never exceeds size_limit.
C4_CapacityBound == Len(queue.packets) <= queue.size_limit

\* a full deque of the largest size limit, after a packet was dropped
C4_Witness ==
    /\ queue.size_limit = MaxCap
    /\ Len(queue.packets) = queue.size_limit
    /\ queue.packets_dropped > 0

\* how many of the add_packet calls lo..hi dropped their packet
DropsAmong(lo, hi) == Cardinality({i \in lo..hi : outcomes[i].did = "Dropped"})

\* C5 (SpecQueue): one loss ratio is recorded per BatchSize offered packets,
\* and the k-th is the number of drops among the offered packets
\* BatchSize*(k-1)+1 .. BatchSize*k (over BatchSize), the last one included.
C5_BatchLossRatio ==
    LET k == queue.packets_offered \div BatchSize
    IN  /\ Len(queue.loss_ratios) = k
        /\ \A j \in 1..k :
               queue.loss_ratios[j] = DropsAmong(BatchSize * (j - 1) + 1, BatchSize * j)

\* C6 (SpecQueue): the packet in service does not count against size_limit:
\* an arrival is dropped only at a busy queue with size_limit packets waiting;
\* an arrival at an idle queue starts service; an arrival at a busy queue with
\* fewer than size_limit waiting is enqueued.
C6_WaitingCapacity ==
    \A i \in 1..Len(outcomes) :
        LET o == outcomes[i]
        IN  /\ o.did = "Dropped" => (o.busy /\ o.waiting = queue.size_limit)
            /\ ~o.busy => o.did = "ServiceStarted"
            /\ (o.busy /\ o.waiting < queue.size_limit) => o.did = "Enqueued"

\* C7 (Spec), as claimed: when the loop is left on the budget, the source
\* arrivals dispatched by the run number max_arrivals.
C7_DispatchedIsBudget ==
    (pc = "done" /\ packets_arrived >= max_arrivals) => dispatched = max_arrivals

\* C7 (Spec), amended: a new simulation's run that leaves the loop on the
\* budget has dispatched max_arrivals - (number of sources) source arrivals,
\* and none when max_arrivals is below the number of sources: the first
\* arrival of each source is counted when gen_init_packets schedules it.
C7_DispatchedIsBudgetLessSources ==
    (pc = "done" /\ packets_arrived >= max_arrivals) =>
        /\ dispatched = (IF max_arrivals >= NumSources
                         THEN max_arrivals - NumSources ELSE 0)
        /\ packets_arrived = (IF max_arrivals >= NumSources
                              THEN max_arrivals ELSE NumSources)

\* a run with a budget above the number of sources has ended on its budget
C7_Witness ==
    /\ pc = "done"
    /\ max_arrivals > NumSources + 1
    /\ packets_arrived = max_arrivals
    /\ dispatched >= 2

\* C8 (Spec): the event list is empty when a simulation starts its run, and a
\* simulation never polls an event that an earlier simulation created.
C8_OwnEventList ==
    /\ pc = "constructed" => event_list = <<>>
    /\ last_polled # None => last_polled.id >= run_first_id

\* C9 (Spec), as claimed: no scheduled event is left undispatched when the
\* simulation ends.
C9_AllDispatched == pc = "done" => event_list = <<>>

\* C9 (Spec), amended: an event leaves the event list only by being polled
\* (and the loop dispatches the event it polls); no event is cancelled or
\* dropped from the list by any other step.
C9_RemovedOnlyByPoll ==
    [][\A i \in 1..Len(event_list) :
           \/ \E j \in 1..Len(event_list') : event_list'[j] = event_list[i]
           \/ (i = 1 /\ last_polled' = event_list[i])]_vars

\* a run has polled events and ended with events still pending
C9_Witness ==
    /\ pc = "done"
    /\ last_polled # None
    /\ event_list # <<>>

\* C10 (SpecQueue): while the queue drops nothing, the i-th remove_packet call
\* completes the i-th admitted packet, and the waiting packets are the next
\* admitted ones, oldest first.
C10_FifoService ==
    queue.packets_dropped = 0 =>
        /\ \A i \in 1..Len(completed) : completed[i] = i
        /\ \A i \in 1..Len(queue.packets) :
               queue.packets[i][1].id = Len(completed) + 1 + i

\* the counters of a queue: everything but the identity of the waiting events
Counters(q) == [q EXCEPT !.packets = [i \in 1..Len(q.packets) |-> q.packets[i][2]]]

IsPrefix(a, b) == Len(a) <= Len(b) /\ SubSeq(b, 1, Len(a)) = a

C12_BatchSequencesKept ==
    /\ Len(queue.loss_ratios) = queue.packets_offered \div BatchSize
    /\ Len(queue.batch_means) = queue.packets_transmitted \div BatchSize

Sorted(list) ==
    \A i \in 1..(Len(list) - 1) : get_event_clock(list[i]) <= get_event_clock(list[i + 1])

\* a step of SpecEL that is a call of poll: the one call that creates no event
PollStep == next_id' = next_id /\ instance' = instance /\ objects' = objects

\* C13 (SpecEL): after every insert_event and every poll the event list is in
\* non-decreasing time order; poll on a non-empty list returns a pending event
\* whose time is the minimum of the pending times and removes that event and
\* nothing else; poll on an empty list returns None and leaves the list empty.
C13_PollEarliest ==
    [][/\ Sorted(event_list')
       /\ PollStep =>
              IF event_list = <<>>
              THEN last_polled' = None /\ event_list' = <<>>
              ELSE /\ \A i \in 1..Len(event_list) :
                          get_event_clock(last_polled') <= get_event_clock(event_list[i])
                   /\ \E i \in 1..Len(event_list) :
                          /\ event_list[i] = last_polled'
                          /\ event_list' = SubSeq(event_list, 1, i - 1)
                                           \o SubSeq(event_list, i + 1, Len(event_list))]_vars

\* poll has returned an event while a later one stays pending
C13_Witness ==
    /\ last_polled # None
    /\ polled # <<>>
    /\ last_polled = polled[Len(polled)]
    /\ event_list # <<>>
    /\ get_event_clock(last_polled) < get_event_clock(event_list[Len(event_list)])

\* C14 (SpecEL), as claimed: whatever the order of constructor calls and
\* get_instance calls, at most one EventListManager object is ever constructed
\* (every further construction raises).
C14_SingleObject == objects <= 1

\* C15 (SpecLive): a started run leaves its main loop, whatever non-negative
\* durations are drawn, and when max_arrivals is at least the number of
\* sources it leaves it with packets_arrived = max_arrivals.
C15_RunTerminates ==
    /\ (pc \in {"constructed", "loop"}) ~> (pc = "done")
    /\ []((pc = "done" /\ max_arrivals >= NumSources) => packets_arrived = max_arrivals)

\* a run whose loop dispatched events has ended on its budget
C15_Witness ==
    /\ pc = "done"
    /\ max_arrivals > NumSources
    /\ packets_arrived = max_arrivals
    /\ dispatched >= 1

\* a step of Spec that is a loop iteration dispatching a DEPARTURE event
DepartureStep ==
    /\ Len(log'.polled) = Len(log.polled) + 1
    /\ last_polled'.type = DEPARTURE

\* the positions in the event list after the step of the events it created
Scheduled == {i \in 1..Len(event_list') : event_list'[i].id >= next_id}

\* C16 (Spec): dispatching a Departure event of queue q schedules exactly one
\* Arrival event for each queue of q.next_queues, at the current global_time,
\* destined to that queue and with q as origin, and no other Arrival event;
\* none at all when next_queues is empty; and that whether or not q starts
\* serving another packet.
C16_DepartureForwards ==
    [][DepartureStep =>
          LET q == last_polled'.destination
              arrivals == {i \in Scheduled : event_list'[i].type = ARRIVAL}
          IN  /\ Cardinality(arrivals) = Len(next_queues(q))
              /\ \A k \in 1..Len(next_queues(q)) :
                     Cardinality({i \in arrivals :
                         event_list'[i].destination = next_queues(q)[k]}) = 1
              /\ \A i \in arrivals :
                     /\ get_event_clock(event_list'[i]) = global_time'
                     /\ event_list'[i].origin = name(q)]_vars

\* the departure of a queue with two downstream queues has been dispatched, in
\* a first simulation, and the queue has started serving a packet that waited
C16_Witness ==
    /\ run = 1
    /\ pc = "loop"
    /\ last_polled.type = DEPARTURE
    /\ Len(next_queues(last_polled.destination)) = 2
    /\ queues[last_polled.destination].is_busy
    /\ queues[last_polled.destination].packets_transmitted >= 1
    /\ \E i, j \in 1..Len(event_list) :
           /\ event_list[i].type = DEPARTURE
           /\ event_list[i].id > last_polled.id
           /\ event_list[j].type = ARRIVAL
           /\ event_list[j].id > event_list[i].id
           /\ event_list[j].origin = name(last_polled.destination)

RECURSIVE SumOf(_, _, _)
SumOf(seq, lo, hi) == IF lo > hi THEN 0 ELSE seq[lo] + SumOf(seq, lo + 1, hi)

\* a step of SpecQueue in which a batch mean is recorded
ClosureStep == Len(queue'.batch_means) = Len(queue.batch_means) + 1

\* C17 (SpecQueue): the k-th closure, made by the remove_packet call that
\* brings packets_transmitted to BatchSize*k, records the waiting + service
\* times of exactly the packets completed by the calls BatchSize*(k-1)+1 ..
\* BatchSize*k (over BatchSize), and resets the accumulator: after the call it
\* holds the time of the packet the call put in service, and nothing else.
C17_BatchClosure ==
    [][ClosureStep =>
          LET k == queue'.packets_transmitted \div BatchSize
          IN  /\ queue'.packets_transmitted = BatchSize * k
              /\ Len(costs') = BatchSize * k
              /\ queue'.batch_means[Len(queue'.batch_means)]
                     = SumOf(costs', BatchSize * (k - 1) + 1, BatchSize * k)
              /\ queue'.total_batch_time = service_cost']_vars

\* a batch that holds a packet that waited has been closed
C17_Witness ==
    /\ Len(costs) >= BatchSize
    /\ queue.batch_means # <<>>
    /\ \E i \in 1..BatchSize : completed[i] # 0
    /\ \E i \in 1..BatchSize : costs[i] >= 2
    /\ queue.total_waiting_time > 0
    /\ Len(queue.batch_means) = Len(costs) \div BatchSize
    /\ queue.batch_means[1] = SumOf(costs, 1, BatchSize)

\* C18 (Spec): whenever a dispatched Departure makes remove_packet take a
\* waiting packet, the waiting time it computes, the current time (the time of
\* the Departure event) minus the packet's arrival time, is not negative: the
\* clamp to zero is never applied.
C18_WaitingNotNegative ==
    [][DepartureStep =>
          LET q == last_polled'.destination
          IN  queues[q].packets # <<>> =>
                  get_event_clock(last_polled') - Head(queues[q].packets)[2] >= 0]_vars

\* a departure has been dispatched, in a first simulation, at a queue whose
\* packets have waited
C18_Witness ==
    /\ run = 1
    /\ last_polled.type = DEPARTURE
    /\ queues[last_polled.destination].total_waiting_time > 0
    /\ queues[last_polled.destination].is_busy

\* the pending events of a type for a queue
Pending(type, q) ==
    {i \in 1..Len(event_list) : event_list[i].type = type /\ event_list[i].destination = q}

\* C19 (Spec), as claimed: between two iterations of the run loop, the pending
\* Departure events destined for a queue number 1 when the queue is busy and 0
\* when it is idle (so that remove_packet is never called on an idle queue).
C19_DeparturePerBusyQueue ==
    pc = "loop" =>
        \A q \in QueueIds :
            Cardinality(Pending(DEPARTURE, q)) = IF queues[q].is_busy THEN 1 ELSE 0

\* the pending Arrival events of a source
PendingOf(n) ==
    {i \in 1..Len(event_list) :
        /\ event_list[i].type = ARRIVAL
        /\ from_source(event_list[i])
        /\ source_num_of(event_list[i]) = n}

\* C20 (Spec), as claimed: from the end of gen_init_packets on, between two
\* iterations of the run loop the event list holds exactly one pending Arrival
\* event of each source (so the list is never empty within a run).
C20_ArrivalPerSource ==
    pc = "loop" => \A n \in SourceNums : Cardinality(PendingOf(n)) = 1

\* the queues that list q in their next_queues
Upstream(q) ==
    {u \in QueueIds : \E k \in 1..Len(next_queues(u)) : next_queues(u)[k] = q}

RECURSIVE Transmitted(_)
Transmitted(us) ==
    IF us = {} THEN 0
    ELSE LET u == CHOOSE x \in us : TRUE
         IN  queues[u].packets_transmitted + Transmitted(us \ {u})

\* C21 (Spec), as claimed: between two iterations of the run loop, for every
\* queue q, packets_offered(q) plus the pending Arrival events destined for q
\* is the number of Arrival events the sources generated for q plus the
\* packets transmitted by the queues that have q in next_queues.
C21_ArrivalBalance ==
    pc = "loop" =>
        \A q \in QueueIds :
            queues[q].packets_offered + Cardinality(Pending(ARRIVAL, q))
                = generated[q] + Transmitted(Upstream(q))

====
